---- MODULE Spec2Model ----
(***************************************************************************)
(* A model of the solar-system scene of src/script.js (the basic variant)  *)
(* and src/unnamed/part_000 (the labelled variant: name labels, click to   *)
(* focus, and the decorative billboard "Theo").                            *)
(*                                                                         *)
(* Numbers are fixed point.  Angles are integers in units of 1e-4 rad,     *)
(* sines and cosines are integers scaled by TRIG, lengths are integers in  *)
(* units of 1/FIX scene units, times are integer milliseconds.             *)
(***************************************************************************)
EXTENDS Integers, Sequences, FiniteSets, TLC

VARIABLES
    labelled,          \* TRUE: part_000 is the running script, FALSE: script.js
    window,            \* host window: innerWidth, innerHeight, devicePixelRatio
    renderer,          \* THREE.WebGLRenderer: size, pixelRatio
    labelRenderer,     \* CSS2DRenderer: size (part_000 only)
    camera,            \* THREE.PerspectiveCamera: aspect, projection, position
    controls,          \* OrbitControls: target
    targetPosition,    \* the module-level scratch vector of focusOnObject
    solarSystemData,   \* the descriptor list handed to the builder
    celestialObjects,  \* the entity records the animation loop walks
    scene,             \* names of the nodes added to the scene root
    built,             \* the builder's forEach has run
    buildError,        \* the error the builder threw, "none" if it threw none
    clock,             \* THREE.Clock: running, elapsedTime
    rafQueue,          \* number of animate callbacks pending in the host
    started,           \* the script's top level has run to its last line
    startCalls,        \* number of direct animate() calls made by the script
    tickCount,         \* number of animate invocations so far
    contextLost,       \* the host rendering surface is unavailable
    callLog,           \* the calls the latest animate invocation issued, in order
    frame,             \* what the latest renderer.render call was handed
    labelFrame         \* what the latest labelRenderer.render call was handed

vars == <<labelled, window, renderer, labelRenderer, camera, controls,
          targetPosition, solarSystemData, celestialObjects, scene, built,
          buildError, clock, rafQueue, started, startCalls, tickCount,
          contextLost, callLog, frame, labelFrame>>

-----------------------------------------------------------------------------
(* Bounds of the model *)

MaxTicks == 5

MaxOrbitTicks == 330

MaxLiveTicks == 2

MaxDescriptors == 2

-----------------------------------------------------------------------------
(* Fixed-point arithmetic *)

TRIG == 10 ^ 4

FIX == 10 ^ 2

PI == 31416

HALF_PI == PI \div 2

TWO_PI == 2 * PI

\* sin on [0, pi/2], x in 1e-4 rad, result scaled by TRIG (Taylor, 5 terms)
SinQ(x) ==
    LET x2 == (x * x) \div TRIG
        t3 == ((x * x2) \div TRIG) \div 6
        t5 == ((t3 * x2) \div TRIG) \div 20
        t7 == ((t5 * x2) \div TRIG) \div 42
        t9 == ((t7 * x2) \div TRIG) \div 72
    IN  x - t3 + t5 - t7 + t9

\* Math.sin
Sin(a) ==
    LET y == a % TWO_PI
    IN  IF y <= HALF_PI THEN SinQ(y)
        ELSE IF y <= PI THEN SinQ(PI - y)
        ELSE IF y <= PI + HALF_PI THEN 0 - SinQ(y - PI)
        ELSE 0 - SinQ(TWO_PI - y)

\* Math.cos
Cos(a) == Sin(a + HALF_PI)

RECURSIVE Gcd(_, _)
Gcd(a, b) == IF b = 0 THEN a ELSE Gcd(b, a % b)

\* the quotient w / h, kept exact as a fraction in lowest terms
Ratio(w, h) == LET g == Gcd(w, h) IN <<w \div g, h \div g>>

Vec(x, y, z) == <<x, y, z>>

VecSub(a, b) == <<a[1] - b[1], a[2] - b[2], a[3] - b[3]>>

Origin == Vec(0, 0, 0)

-----------------------------------------------------------------------------
(* The descriptor table.  radius and orbitalRadius are in 1/FIX units,     *)
(* orbitalSpeed and rotationSpeed in 1e-4 rad per tick.                    *)

SolarSystemData == <<
    [name |-> "Sun", radius |-> 20 * FIX, color |-> 16776960, isSun |-> TRUE],
    [name |-> "Mercury", radius |-> 2 * FIX, color |-> 11184810,
     orbitalRadius |-> 50 * FIX, orbitalSpeed |-> 400, rotationSpeed |-> 100],
    [name |-> "Venus", radius |-> 4 * FIX, color |-> 16770229,
     orbitalRadius |-> 80 * FIX, orbitalSpeed |-> 250, rotationSpeed |-> 50],
    [name |-> "Earth", radius |-> 450, color |-> 4620980,
     orbitalRadius |-> 120 * FIX, orbitalSpeed |-> 150, rotationSpeed |-> 200],
    [name |-> "Mars", radius |-> 3 * FIX, color |-> 16729344,
     orbitalRadius |-> 160 * FIX, orbitalSpeed |-> 100, rotationSpeed |-> 180],
    [name |-> "Jupiter", radius |-> 12 * FIX, color |-> 13808780,
     orbitalRadius |-> 220 * FIX, orbitalSpeed |-> 50, rotationSpeed |-> 400],
    [name |-> "Saturn", radius |-> 10 * FIX, color |-> 16032864,
     orbitalRadius |-> 280 * FIX, orbitalSpeed |-> 30, rotationSpeed |-> 350,
     hasRing |-> TRUE],
    [name |-> "Uranus", radius |-> 7 * FIX, color |-> 11529966,
     orbitalRadius |-> 340 * FIX, orbitalSpeed |-> 20, rotationSpeed |-> 250],
    [name |-> "Neptune", radius |-> 650, color |-> 4286945,
     orbitalRadius |-> 390 * FIX, orbitalSpeed |-> 10, rotationSpeed |-> 230] >>

\* a property read of a JavaScript object: the value, or Undefined when absent
Undefined == "undefined"

Has(o, f) == f \in DOMAIN o

Get(o, f) == IF Has(o, f) THEN o[f] ELSE Undefined

\* JavaScript truthiness of a property that holds a boolean
Flag(o, f) == Has(o, f) /\ o[f] = TRUE

\* JavaScript truthiness of a property that holds a number
NonZero(o, f) == Has(o, f) /\ o[f] # 0

-----------------------------------------------------------------------------
(* Scene graph builder *)

\* new THREE.Mesh / new THREE.Object3D: at the origin, unrotated, facing +Z
NewMesh(name, geometry, material) ==
    [name |-> name, geometry |-> geometry, material |-> material,
     position |-> Origin, rotation |-> [x |-> 0, y |-> 0, z |-> 0],
     facing |-> Vec(0, 0, FIX), children |-> <<>>]

NewObject3D == [position |-> Origin, rotation |-> [x |-> 0, y |-> 0, z |-> 0]]

\* the CSS2DObject label hung above the mesh, and its click listener
CreateLabel(data) ==
    [type |-> "label", text |-> data.name,
     position |-> Vec(0, (data.radius * 15) \div 10, 0), onClick |-> "focusOnObject"]

\* the ring of a hasRing body
CreateRing(data) ==
    [type |-> "ring", innerRadius |-> (data.radius * 13) \div 10,
     outerRadius |-> data.radius * 2, rotationX |-> HALF_PI]

\* the orbital offset laid along Z in place of X
PlaceOnOrbit_AlongZ(mesh, data) ==
    [mesh EXCEPT !.position = Vec(mesh.position[1], mesh.position[2], Get(data, "orbitalRadius"))]

\* mesh.position.x = data.orbitalRadius
PlaceOnOrbit(mesh, data) ==
    [mesh EXCEPT !.position = Vec(Get(data, "orbitalRadius"), mesh.position[2], mesh.position[3])]

\* one pass of the forEach callback: the entity record pushed and the nodes
\* added to the scene root
CreateBody(data, withLabels) ==
    LET geometry == [type |-> "SphereGeometry", radius |-> data.radius]
        material == IF Flag(data, "isSun") THEN "MeshBasicMaterial"
                                             ELSE "MeshStandardMaterial"
        mesh0    == NewMesh(data.name, geometry, material)
        mesh1    == IF withLabels
                    THEN [mesh0 EXCEPT !.children = Append(@, CreateLabel(data))]
                    ELSE mesh0
    IN  IF Flag(data, "isSun")
        THEN [object |-> [mesh |-> mesh1, data |-> data],
              nodes  |-> <<[node |-> "mesh", of |-> data.name]>>]
        ELSE LET mesh2 == PlaceOnOrbit(mesh1, data)
                 mesh3 == IF Flag(data, "hasRing")
                          THEN [mesh2 EXCEPT !.children = Append(@, CreateRing(data))]
                          ELSE mesh2
             IN  [object |-> [mesh |-> mesh3, pivot |-> NewObject3D, data |-> data],
                  nodes  |-> <<[node |-> "pivot", of |-> data.name]>>]

\* solarSystemData.forEach(...)
RECURSIVE BuildFrom(_, _, _, _)
BuildFrom(list, withLabels, objects, nodes) ==
    IF list = <<>> THEN [objects |-> objects, nodes |-> nodes]
    ELSE LET b == CreateBody(Head(list), withLabels)
         IN  BuildFrom(Tail(list), withLabels,
                       Append(objects, b.object), nodes \o b.nodes)

\* the lights added to the scene before any body
Lights == <<[node |-> "light", of |-> "ambientLight"],
           [node |-> "light", of |-> "pointLight"]>>

\* the decorative billboard, pushed after the bodies (part_000 only)
CreateTheo ==
    [mesh |-> NewMesh("Theo", [type |-> "PlaneGeometry", width |-> 30 * FIX,
                               height |-> 30 * FIX], "MeshBasicMaterial"),
     data |-> [name |-> "Theo"], isTheo |-> TRUE]

-----------------------------------------------------------------------------
(* Animation stepper *)

\* the 0.5 of "orbitalSpeed * 0.5", as the fraction 5/10
OrbitDamping == 5

\* a time-driven rotation: the increment scaled by the frame's delta
RotationIncrement_TimeScaled(data, delta) == (data.rotationSpeed * delta) \div 16

\* the increment of mesh.rotation.y in one tick; the tick's delta is computed
\* by animate and not used
RotationIncrement(data, delta) == data.rotationSpeed

\* the orbit increment with the damping factor left out
OrbitIncrement_Undamped(data) == data.orbitalSpeed

\* the increment of pivot.rotation.y in one tick
OrbitIncrement(data) == (data.orbitalSpeed * OrbitDamping) \div 10

\* the else branch of the forEach callback of animate
PlanetStep(obj, delta) ==
    LET spun == IF NonZero(obj.data, "rotationSpeed")
                THEN [obj EXCEPT !.mesh.rotation.y = @ + RotationIncrement(obj.data, delta)]
                ELSE obj
    IN  IF Has(obj, "pivot") /\ NonZero(obj.data, "orbitalSpeed")
        THEN [spun EXCEPT !.pivot.rotation.y = @ + OrbitIncrement(obj.data)]
        ELSE spun

orbitRadiusX == 300 * FIX

orbitRadiusZ == 200 * FIX

\* speed = 0.1 rad per second, in 1e-4 rad per second
TheoSpeed == 1000

tiltAngle == PI \div 6

\* "Gentle spin": 0.005 rad per tick
TheoSpin == 50

\* the point of the tilted ellipse at elapsedTime (milliseconds)
TheoPath(elapsedTime) ==
    LET angle == (elapsedTime * TheoSpeed) \div 1000
        x     == (Cos(angle) * orbitRadiusX) \div TRIG
        z0    == (Sin(angle) * orbitRadiusZ) \div TRIG
        y     == (z0 * Sin(tiltAngle)) \div TRIG
        z     == (z0 * Cos(tiltAngle)) \div TRIG
    IN  Vec(x, y, z)

\* Object3D.lookAt: the whole orientation is replaced by the one that turns
\* the facing axis from the object's position to the target
LookAt(mesh, target) ==
    [mesh EXCEPT !.facing = VecSub(target, mesh.position),
                 !.rotation = [x |-> 0, y |-> 0, z |-> 0]]

\* Theo's step with the billboard call left out: the spin accumulates
TheoStep_NoBillboard(obj, elapsedTime, cameraPosition) ==
    LET moved == [obj.mesh EXCEPT !.position = TheoPath(elapsedTime)]
    IN  [obj EXCEPT !.mesh = [moved EXCEPT !.rotation.z = @ + TheoSpin]]

\* the isTheo branch of the forEach callback of animate
TheoStep(obj, elapsedTime, cameraPosition) ==
    LET moved == [obj.mesh EXCEPT !.position = TheoPath(elapsedTime)]
        spun  == [moved EXCEPT !.rotation.z = @ + TheoSpin]
    IN  [obj EXCEPT !.mesh = LookAt(spun, cameraPosition)]

\* the forEach callback of animate
UpdateObject(obj, delta, elapsedTime, cameraPosition) ==
    IF Flag(obj, "isTheo")
    THEN TheoStep(obj, elapsedTime, cameraPosition)
    ELSE PlanetStep(obj, delta)

\* a registration that is lost
RequestAnimationFrame_Dropped(queue) == queue

\* requestAnimationFrame(animate): one more callback pending in the host
RequestAnimationFrame(queue) == queue + 1

\* wall-clock milliseconds between two frames: a steady 60 Hz frame, or a
\* long pause of the host
Deltas == {16, 1000}

\* the camera positions user drags can bring about through OrbitControls
CameraPositions == {Vec(0, 150 * FIX, 400 * FIX), Vec(400 * FIX, 150 * FIX, 0)}

\* THREE.Clock.getDelta with `wall` milliseconds gone since the last call:
\* the first call starts the clock and returns 0
GetDelta(st, wall) ==
    LET diff == IF st.clock.running THEN wall ELSE 0
    IN  [st EXCEPT !.clock = [running |-> TRUE, elapsedTime |-> @.elapsedTime + diff],
                   !.delta = diff,
                   !.log = Append(@, "clock.getDelta")]

\* THREE.Clock.getElapsedTime: a getDelta at the same instant, then the total
GetElapsedTime(st) ==
    [st EXCEPT !.elapsedTime = GetDelta(st, 0).clock.elapsedTime,
               !.log = Append(@, "clock.getElapsedTime")]

\* celestialObjects.forEach(obj => ...)
UpdateAll(st) ==
    [st EXCEPT !.objects = [i \in 1..Len(@) |->
                              UpdateObject(@[i], st.delta, st.elapsedTime, st.camera.position)],
               !.log = @ \o [i \in 1..Len(st.objects) |-> "update"]]

\* controls.update(): the camera is put where the user's drags have taken it
ControlsUpdate(st, position) ==
    [st EXCEPT !.camera.position = position,
               !.log = Append(@, "controls.update")]

\* the scene as a render call finds it
Snapshot(objects, cam) == [objects |-> objects, camera |-> cam]

\* renderer.render(scene, camera)
Render(st) ==
    [st EXCEPT !.frame = Snapshot(st.objects, st.camera),
               !.log = Append(@, "renderer.render")]

\* labelRenderer.render(scene, camera)
LabelRender(st) ==
    [st EXCEPT !.labelFrame = Snapshot(st.objects, st.camera),
               !.log = Append(@, "labelRenderer.render")]

\* requestAnimationFrame(animate)
Schedule(st) ==
    [st EXCEPT !.queue = RequestAnimationFrame(@),
               !.log = Append(@, "requestAnimationFrame")]

\* statement sequencing: the state that statement Step leaves, run in state st
Then(st, Step(_)) == CHOOSE next \in {Step(s) : s \in {st}} : TRUE

\* animate with the render calls issued ahead of the updates
AnimateBody_RenderFirst(st, wall, position, withLabels) ==
    LET s1 == Then(st, Schedule)
        s2 == Then(s1, LAMBDA s : GetDelta(s, wall))
        s3 == IF withLabels THEN Then(s2, GetElapsedTime) ELSE s2
        s4 == Then(s3, Render)
        s5 == IF withLabels THEN Then(s4, LabelRender) ELSE s4
        s6 == Then(s5, UpdateAll)
    IN  Then(s6, LAMBDA s : ControlsUpdate(s, position))

\* the body of function animate(), statement by statement
AnimateBody(st, wall, position, withLabels) ==
    LET s1 == Then(st, Schedule)
        s2 == Then(s1, LAMBDA s : GetDelta(s, wall))
        s3 == IF withLabels THEN Then(s2, GetElapsedTime) ELSE s2
        s4 == Then(s3, UpdateAll)
        s5 == Then(s4, LAMBDA s : ControlsUpdate(s, position))
        s6 == Then(s5, Render)
    IN  IF withLabels THEN Then(s6, LabelRender) ELSE s6

\* function animate(), entered with `queue` callbacks pending, `wall`
\* milliseconds after the previous frame
animate(queue, wall) ==
    \E position \in CameraPositions :
        LET st0 == [objects |-> celestialObjects, camera |-> camera, clock |-> clock,
                    queue |-> queue, delta |-> 0, elapsedTime |-> 0, log |-> <<>>,
                    frame |-> frame, labelFrame |-> labelFrame]
        IN  \E end \in {AnimateBody(st0, wall, position, labelled)} :
                /\ rafQueue' = end.queue
                /\ clock' = end.clock
                /\ celestialObjects' = end.objects
                /\ camera' = end.camera
                /\ frame' = end.frame
                /\ labelFrame' = end.labelFrame
                /\ callLog' = end.log
                /\ tickCount' = tickCount + 1
                /\ UNCHANGED <<labelled, window, renderer, labelRenderer, controls,
                               targetPosition, solarSystemData, scene, built,
                               buildError, contextLost>>

\* the direct call animate() on the script's last line
StartAnimation ==
    /\ built
    /\ ~started
    /\ started' = TRUE
    /\ startCalls' = startCalls + 1
    /\ animate(rafQueue, 0)

\* the host runs the pending callback
AnimationFrame ==
    /\ started
    /\ rafQueue > 0
    /\ tickCount < MaxTicks
    /\ \E wall \in Deltas : animate(rafQueue - 1, wall)
    /\ UNCHANGED <<started, startCalls>>

-----------------------------------------------------------------------------
(* Focus and resize *)

\* Matrix4.makeRotationFromEuler for a rotation about Y alone, rows of the
\* upper 3x3 block scaled by TRIG
RotationY(angle) ==
    << <<Cos(angle), 0, Sin(angle)>>,
       <<0, TRIG, 0>>,
       <<0 - Sin(angle), 0, Cos(angle)>> >>

Row(r, v) == (r[1] * v[1] + r[2] * v[2] + r[3] * v[3]) \div TRIG

ApplyMatrix(m, v) == Vec(Row(m[1], v), Row(m[2], v), Row(m[3], v))

\* the position relative to the parent, read in place of the world position
GetWorldPosition_Local(obj) == obj.mesh.position

\* object.getWorldPosition: the mesh's position carried through its parent's
\* transform (the pivot sits at the origin; the scene root is the identity)
GetWorldPosition(obj) ==
    IF Has(obj, "pivot")
    THEN ApplyMatrix(RotationY(obj.pivot.rotation.y), obj.mesh.position)
    ELSE obj.mesh.position

\* focusOnObject(mesh) for the mesh of celestialObjects[i]
focusOnObject(i) ==
    /\ targetPosition' = GetWorldPosition(celestialObjects[i])
    /\ controls' = [controls EXCEPT !.target = targetPosition']

\* a click on the label of celestialObjects[i] (Theo has no label)
LabelClick(i) ==
    /\ started
    /\ labelled
    /\ ~Flag(celestialObjects[i], "isTheo")
    /\ focusOnObject(i)
    /\ UNCHANGED <<labelled, window, renderer, labelRenderer, camera, solarSystemData,
                   celestialObjects, scene, built, buildError, clock, rafQueue,
                   started, startCalls, tickCount, contextLost, callLog, frame,
                   labelFrame>>

\* the sizes and pixel densities the host window takes
WindowShapes ==
    { [innerWidth |-> 800, innerHeight |-> 600, devicePixelRatio |-> 1],
      [innerWidth |-> 400, innerHeight |-> 300, devicePixelRatio |-> 2],
      [innerWidth |-> 1920, innerHeight |-> 1080, devicePixelRatio |-> 1] }

\* the aspect taken as height over width
AspectOf_Inverted(w) == Ratio(w.innerHeight, w.innerWidth)

\* camera.aspect = window.innerWidth / window.innerHeight
AspectOf(w) == Ratio(w.innerWidth, w.innerHeight)

\* the resize listener, run with the window already at its new shape
OnResize(w) ==
    /\ camera' = [camera EXCEPT !.aspect = AspectOf(w), !.projectionAspect = AspectOf(w)]
    /\ renderer' = [size |-> <<w.innerWidth, w.innerHeight>>,
                    pixelRatio |-> w.devicePixelRatio]
    /\ labelRenderer' = IF labelled
                        THEN [labelRenderer EXCEPT !.size = <<w.innerWidth, w.innerHeight>>]
                        ELSE labelRenderer

\* the host resizes the window and delivers the resize event
Resize ==
    /\ started
    /\ \E w \in WindowShapes :
          /\ window' = w
          /\ OnResize(w)
    /\ UNCHANGED <<labelled, controls, targetPosition, solarSystemData,
                   celestialObjects, scene, built, buildError, clock, rafQueue,
                   started, startCalls, tickCount, contextLost, callLog, frame,
                   labelFrame>>

\* the host takes the WebGL context of the canvas away, or gives it back;
\* neither script listens for the events
ContextLost ==
    /\ started
    /\ ~contextLost
    /\ contextLost' = TRUE
    /\ UNCHANGED <<labelled, window, renderer, labelRenderer, camera, controls,
                   targetPosition, solarSystemData, celestialObjects, scene, built,
                   buildError, clock, rafQueue, started, startCalls, tickCount,
                   callLog, frame, labelFrame>>

ContextRestored ==
    /\ started
    /\ contextLost
    /\ contextLost' = FALSE
    /\ UNCHANGED <<labelled, window, renderer, labelRenderer, camera, controls,
                   targetPosition, solarSystemData, celestialObjects, scene, built,
                   buildError, clock, rafQueue, started, startCalls, tickCount,
                   callLog, frame, labelFrame>>

-----------------------------------------------------------------------------
(* Specifications *)

NoFrame == [objects |-> <<>>, camera |-> <<>>]

\* the script's top level up to the builder, for the window shape w
Setup(w, withLabels) ==
    /\ labelled = withLabels
    /\ window = w
    /\ renderer = [size |-> <<w.innerWidth, w.innerHeight>>,
                   pixelRatio |-> w.devicePixelRatio]
    /\ labelRenderer = IF withLabels
                       THEN [size |-> <<w.innerWidth, w.innerHeight>>]
                       ELSE [size |-> <<>>]
    /\ camera = [aspect |-> AspectOf(w), projectionAspect |-> AspectOf(w),
                 position |-> Vec(0, 150 * FIX, 400 * FIX)]
    /\ controls = [target |-> Origin, enableDamping |-> TRUE]
    /\ targetPosition = Origin
    /\ clock = [running |-> FALSE, elapsedTime |-> 0]
    /\ rafQueue = 0
    /\ started = FALSE
    /\ startCalls = 0
    /\ tickCount = 0
    /\ contextLost = FALSE
    /\ callLog = <<>>
    /\ frame = NoFrame
    /\ labelFrame = NoFrame
    /\ buildError = "none"

\* the state when the script reaches its last line, animate()
Init ==
    \E w \in WindowShapes, withLabels \in BOOLEAN :
        /\ Setup(w, withLabels)
        /\ solarSystemData = SolarSystemData
        /\ built = TRUE
        /\ LET b == BuildFrom(SolarSystemData, withLabels, <<>>, Lights)
           IN  IF withLabels
               THEN /\ celestialObjects = Append(b.objects, CreateTheo)
                    /\ scene = Append(b.nodes, [node |-> "mesh", of |-> "Theo"])
               ELSE /\ celestialObjects = b.objects
                    /\ scene = b.nodes

Next ==
    \/ StartAnimation
    \/ AnimationFrame
    \/ Resize
    \/ \E i \in 1..Len(celestialObjects) : LabelClick(i)
    \/ ContextLost
    \/ ContextRestored

Spec == Init /\ [][Next]_vars

\* the script runs to its last line and the host, while the document lives,
\* keeps running the callback it was handed
LiveFrame ==
    /\ started
    /\ rafQueue > 0
    /\ tickCount < MaxLiveTicks
    /\ \E wall \in Deltas : animate(rafQueue - 1, wall)
    /\ UNCHANGED <<started, startCalls>>

NextLive ==
    \/ StartAnimation
    \/ LiveFrame
    \/ Resize
    \/ \E i \in 1..Len(celestialObjects) : LabelClick(i)
    \/ ContextLost
    \/ ContextRestored

SpecLive == Init /\ [][NextLive]_vars /\ WF_vars(StartAnimation) /\ WF_vars(LiveFrame)

\* a host that only delivers frames, at a steady 16 ms
SteadyFrame ==
    /\ started
    /\ rafQueue > 0
    /\ tickCount < MaxOrbitTicks
    /\ animate(rafQueue - 1, 16)
    /\ UNCHANGED <<started, startCalls>>

NextOrbit ==
    \/ StartAnimation
    \/ SteadyFrame

SpecOrbit == Init /\ [][NextOrbit]_vars

\* descriptors a caller of the builder could hand it: three well-formed ones,
\* and three that are malformed
DescriptorPool ==
    { SolarSystemData[1], SolarSystemData[4], SolarSystemData[7],
      [name |-> "NegativeRadius", radius |-> 0 - 3 * FIX, color |-> 255,
       orbitalRadius |-> 60 * FIX, orbitalSpeed |-> 100, rotationSpeed |-> 100],
      [name |-> "NoOrbitalRadius", radius |-> 3 * FIX, color |-> 255,
       orbitalSpeed |-> 100, rotationSpeed |-> 100],
      [name |-> "NegativeSun", radius |-> 0 - 20 * FIX, color |-> 255, isSun |-> TRUE] }

RECURSIVE ListsUpTo(_)
ListsUpTo(n) ==
    IF n = 0 THEN {<<>>}
    ELSE LET shorter == ListsUpTo(n - 1)
         IN  shorter \cup {Append(l, d) : l \in shorter, d \in DescriptorPool}

\* the script about to run the builder on a list of descriptors
InitBuilder ==
    \E w \in WindowShapes, withLabels \in BOOLEAN :
        /\ Setup(w, withLabels)
        /\ solarSystemData \in ListsUpTo(MaxDescriptors)
        /\ built = FALSE
        /\ celestialObjects = <<>>
        /\ scene = Lights

\* solarSystemData.forEach(data => ...), no statement of which throws
CreateCelestialBodies ==
    /\ ~built
    /\ LET b == BuildFrom(solarSystemData, labelled, celestialObjects, scene)
       IN  /\ celestialObjects' = b.objects
           /\ scene' = b.nodes
    /\ built' = TRUE
    /\ UNCHANGED <<labelled, window, renderer, labelRenderer, camera, controls,
                   targetPosition, solarSystemData, buildError, clock, rafQueue,
                   started, startCalls, tickCount, contextLost, callLog, frame,
                   labelFrame>>

SpecBuilder == InitBuilder /\ [][CreateCelestialBodies]_vars

-----------------------------------------------------------------------------
(* Properties *)

Planets == {i \in 1..Len(celestialObjects) : Has(celestialObjects[i], "pivot")}

Theos == {i \in 1..Len(celestialObjects) : Flag(celestialObjects[i], "isTheo")}

Ticked == tickCount' # tickCount

\* C1: after N ticks every non-central body's mesh.rotation.y is its initial
\* angle 0 plus N * rotationSpeed, whatever the frame deltas were and whatever
\* resize and focus events came between the ticks
C1_RotationIsFrameCounted ==
    \A i \in Planets :
        celestialObjects[i].mesh.rotation.y = tickCount * celestialObjects[i].data.rotationSpeed

\* three ticks with unequal deltas, a focus and a resize in between
C1_Witness ==
    /\ tickCount = 3
    /\ clock.elapsedTime = 1016
    /\ controls.target # Origin
    /\ frame.camera.aspect # camera.aspect

\* C2: after N ticks every non-central body's pivot.rotation.y is its initial
\* angle 0 plus N * (orbitalSpeed * 0.5)
C2_OrbitIsHalfSpeedPerTick ==
    \A i \in Planets :
        2 * celestialObjects[i].pivot.rotation.y = tickCount * celestialObjects[i].data.orbitalSpeed

\* four ticks on, Neptune's pivot has turned 4 * 0.0005 rad
C2_Witness ==
    /\ tickCount = 4
    /\ \E i \in Planets : /\ celestialObjects[i].data.name = "Neptune"
                          /\ celestialObjects[i].pivot.rotation.y = 20

\* the world position of a body in closed form: a body on an orbit stands at
\* its orbital offset turned about the vertical axis by the pivot angle
ClosedFormWorld(obj) ==
    IF Has(obj, "pivot")
    THEN Vec((Cos(obj.pivot.rotation.y) * obj.data.orbitalRadius) \div TRIG,
             0,
             ((0 - Sin(obj.pivot.rotation.y)) * obj.data.orbitalRadius) \div TRIG)
    ELSE obj.mesh.position

\* C3: a focus call sets the camera focus target to the body's world position
\* at the moment of the call, and a tick leaves the target as it was
C3_FocusCapturesWorldPosition ==
    [][ /\ \A i \in 1..Len(celestialObjects) :
              LabelClick(i) => controls'.target = ClosedFormWorld(celestialObjects[i])
        /\ Ticked => controls' = controls ]_vars

\* a target captured from an orbiting body that has since moved away from it
C3_Witness ==
    /\ tickCount >= 2
    /\ controls.target # Origin
    /\ \A i \in 1..Len(celestialObjects) :
          GetWorldPosition(celestialObjects[i]) # controls.target

\* C4: a resize to (W,H) sets the camera aspect to W/H and the size of the
\* scene renderer, and of the label renderer where there is one, to (W,H),
\* and changes no body's angles and not the focus target
C4_ResizeSetsAspectAndSizes ==
    [][ window' # window =>
          /\ camera'.aspect[1] * window'.innerHeight = camera'.aspect[2] * window'.innerWidth
          /\ renderer'.size = <<window'.innerWidth, window'.innerHeight>>
          /\ labelled => labelRenderer'.size = <<window'.innerWidth, window'.innerHeight>>
          /\ celestialObjects' = celestialObjects
          /\ controls' = controls ]_vars

\* a resize delivered after the second tick, in the labelled variant
C4_Witness ==
    /\ labelled
    /\ tickCount = 2
    /\ renderer.size = <<1920, 1080>>
    /\ labelRenderer.size = <<1920, 1080>>
    /\ frame.camera.aspect # camera.aspect

\* C5 as claimed: the world position of a body at pivot angle theta is
\* (orbitalRadius * cos theta, 0, orbitalRadius * sin theta)
C5_WorldPositionPlusSin ==
    \A i \in Planets :
        LET obj == celestialObjects[i]
        IN  GetWorldPosition(obj) =
              Vec((Cos(obj.pivot.rotation.y) * obj.data.orbitalRadius) \div TRIG,
                  0,
                  (Sin(obj.pivot.rotation.y) * obj.data.orbitalRadius) \div TRIG)

\* C5 amended: the world position of a body at pivot angle theta is
\* (orbitalRadius * cos theta, 0, - orbitalRadius * sin theta); Z is negative
\* for theta in (0, pi)
C5_WorldPositionMinusSin ==
    \A i \in Planets :
        LET obj == celestialObjects[i]
            at  == GetWorldPosition(obj)
        IN  /\ at = ClosedFormWorld(obj)
            /\ (obj.pivot.rotation.y % TWO_PI < PI /\ Sin(obj.pivot.rotation.y) > 0) => at[3] < 0

\* Mercury past half a turn, with Z positive, while Venus is still in the
\* first half turn, with Z negative
C5_Witness ==
    \E i, j \in Planets :
        /\ celestialObjects[i].pivot.rotation.y > PI
        /\ GetWorldPosition(celestialObjects[i])[3] > 0
        /\ celestialObjects[j].pivot.rotation.y < PI
        /\ GetWorldPosition(celestialObjects[j])[3] < 0

\* a descriptor with a negative radius, or of a non-central body with no
\* orbitalRadius
Malformed(data) ==
    \/ data.radius < 0
    \/ ~Flag(data, "isSun") /\ ~Has(data, "orbitalRadius")

\* C6: the builder rejects a malformed descriptor with InvalidDescriptor; no
\* mesh or pivot for it is added to the scene and no entity record for it
\* reaches celestialObjects
C6_BuilderRejectsMalformed ==
    built =>
        \A k \in 1..Len(solarSystemData) :
            Malformed(solarSystemData[k]) =>
                /\ buildError = "InvalidDescriptor"
                /\ \A i \in 1..Len(celestialObjects) :
                      celestialObjects[i].data.name # solarSystemData[k].name
                /\ \A n \in 1..Len(scene) : scene[n].of # solarSystemData[k].name

\* C7: while the rendering surface is unavailable no tick issues a render call
C7_NoRenderWhileContextLost ==
    [][ (contextLost /\ Ticked) =>
          \A k \in 1..Len(callLog') :
              callLog'[k] \notin {"renderer.render", "labelRenderer.render"} ]_vars

\* C8: in every tick all entity updates come first, then the camera
\* controller's update, then the render of the scene, then that of the labels;
\* every render is handed the entities and the camera as the tick left them
C8_UpdateThenControlsThenRender ==
    started =>
        /\ \E c \in 1..Len(callLog) :
              /\ callLog[c] = "controls.update"
              /\ Cardinality({k \in 1..(c - 1) : callLog[k] = "update"}) = Len(celestialObjects)
              /\ \A k \in (c + 1)..Len(callLog) : callLog[k] # "update"
              /\ c + 1 <= Len(callLog) /\ callLog[c + 1] = "renderer.render"
              /\ labelled => (c + 2 <= Len(callLog) /\ callLog[c + 2] = "labelRenderer.render")
        /\ frame.objects = celestialObjects
        /\ frame.camera.position = camera.position
        /\ labelled => (labelFrame.objects = celestialObjects
                        /\ labelFrame.camera.position = camera.position)

\* a tick of the labelled variant in which the bodies and the camera moved
C8_Witness ==
    /\ labelled
    /\ tickCount = 3
    /\ camera.position # Vec(0, 150 * FIX, 400 * FIX)
    /\ callLog[Len(callLog)] = "labelRenderer.render"

\* C9: animate is called once by the script, every invocation registers one
\* next invocation before anything else, so between ticks exactly one
\* callback is pending, and under a fair host another tick always runs
C9_OneCallbackAlwaysPending ==
    /\ [](startCalls <= 1 /\ (started <=> startCalls = 1))
    /\ [](started => (rafQueue = 1 /\ callLog[1] = "requestAnimationFrame"))
    /\ \A n \in 0..(MaxLiveTicks - 1) : (tickCount = n) ~> (tickCount = n + 1)

\* the callback re-registered by the second invocation
C9_Witness ==
    /\ started
    /\ startCalls = 1
    /\ tickCount = 2
    /\ rafQueue = 1

====
